---- MODULE Spec2Model ----
(***************************************************************************)
(* Model of the aggregation pipeline of IFO.py: one order table (df), a   *)
(* selected date and a selected hub are turned into the Driver-wise        *)
(* Summary, the Hub Wise Summary, the Vehicle Utilization table and the    *)
(* two time-bucket distributions.  Each top-level block of the script is   *)
(* one action; pandas operations are modelled by what they compute         *)
(* (groupby sorts its keys, count skips missing values, a left merge       *)
(* leaves NaN, float64 division and truncation).                           *)
(***************************************************************************)
EXTENDS Integers, Sequences, FiniteSets, TLC

(***************************************************************************)
(* Missing values.  A nullable cell is a sequence of length 0 (missing)    *)
(* or 1 (a number) / 3 (a timestamp <<day, hour, minute>>).                *)
(***************************************************************************)
NaT == <<>>
NaN == <<>>
At(day, hour, minute) == <<day, hour, minute>>
Num(n) == <<n>>
isna(v) == v = <<>>
\* Series.dt.date == selected_date: a missing timestamp never matches
DateIs(t, date) == ~isna(t) /\ t[1] = date
\* Timestamp < Timestamp; any comparison with NaT is False
TsLess(a, b) ==
    /\ ~isna(a)
    /\ ~isna(b)
    /\ \/ a[1] < b[1]
       \/ a[1] = b[1] /\ a[2] < b[2]
       \/ a[1] = b[1] /\ a[2] = b[2] /\ a[3] < b[3]

(***************************************************************************)
(* float64 arithmetic, as far as the script uses it: a / b on two counts,  *)
(* x * 100, int(x) and round(x, 2).  A positive double is a 53-bit         *)
(* significand m (a sequence of bits, most significant first) and an       *)
(* exponent e, standing for m * 2^e; zero has the empty significand.       *)
(***************************************************************************)
\* long division and multiplication go 13 bits at a time
Limb == 2 ^ 13

RECURSIVE BitsOf(_)
BitsOf(n) == IF n = 0 THEN <<>> ELSE Append(BitsOf(n \div 2), n % 2)

\* the w low bits of n, most significant first
BitsW(n, w) == [i \in 1..w |-> (n \div (2 ^ (w - i))) % 2]

\* the integer a short bit sequence stands for (at most 30 bits)
RECURSIVE ValueOf(_)
ValueOf(b) ==
    IF b = <<>> THEN 0
    ELSE 2 * ValueOf(SubSeq(b, 1, Len(b) - 1)) + b[Len(b)]

\* 2^j mod b
RECURSIVE Pow2Mod(_, _)
Pow2Mod(j, b) ==
    IF j <= 13 THEN (2 ^ j) % b
    ELSE (Pow2Mod(j - 13, b) * (Limb % b)) % b

\* the remainder of long division of r by b after j quotient bits
RemAfter(r, b, j) == (r * Pow2Mod(j, b)) % b

\* the first n bits after the binary point of r / b (0 <= r < b)
FracBits(r, b, n) ==
    [i \in 1..n |-> IF 2 * RemAfter(r, b, i - 1) >= b THEN 1 ELSE 0]

\* zeros after the binary point of r / b before its first 1 (0 < r < b)
LeadingZeros(r, b) ==
    CHOOSE z \in 0..(2 * 13) :
        /\ 2 * RemAfter(r, b, z) >= b
        /\ \A j \in 0..(z - 1) : 2 * RemAfter(r, b, j) < b

AnyOne(b) == \E i \in 1..Len(b) : b[i] = 1

\* b + 1 on a bit sequence
Inc(b) ==
    IF \A i \in 1..Len(b) : b[i] = 1
    THEN <<1>> \o [i \in 1..Len(b) |-> 0]
    ELSE LET p == CHOOSE i \in 1..Len(b) :
                      b[i] = 0 /\ \A j \in (i + 1)..Len(b) : b[j] = 1
         IN  [i \in 1..Len(b) |-> IF i < p THEN b[i] ELSE IF i = p THEN 1 ELSE 0]

\* round-to-nearest, ties-to-even, of bits * 2^e (sticky: a nonzero rest
\* below the last bit) to 53 significant bits
RoundNearestEven(bits, e, sticky) ==
    LET k == Len(bits) - 53
        keep == SubSeq(bits, 1, 53)
        g == IF k > 0 THEN bits[54] ELSE 0
        st == sticky \/ AnyOne(SubSeq(bits, 55, Len(bits)))
        up == g = 1 /\ (st \/ keep[53] = 1)
        m2 == IF up THEN Inc(keep) ELSE keep
    IN  IF Len(m2) > 53
        THEN [m |-> SubSeq(m2, 1, 53), e |-> e + k + 1]
        ELSE [m |-> m2, e |-> e + k]

F64Zero == [m |-> <<>>, e |-> 0]

\* a / b in float64, for counts a >= 0, b > 0
F64Div(a, b) ==
    IF a = 0 THEN F64Zero
    ELSE LET ib == BitsOf(a \div b)
             L == Len(ib)
             r == a % b
             z == IF L = 0 THEN LeadingZeros(r, b) ELSE 0
             n == IF L > 0 THEN 54 - L ELSE z + 54
             stream == ib \o FracBits(r, b, n)
             sig == SubSeq(stream, z + 1, Len(stream))
         IN  RoundNearestEven(sig, (IF L > 0 THEN L - 54 ELSE 0 - (z + 54)),
                              RemAfter(r, b, n) # 0)

\* limbs (least significant last) times k plus carry c, as limbs
RECURSIVE MulLimbs(_, _, _)
MulLimbs(l, k, c) ==
    IF l = <<>> THEN (IF c = 0 THEN <<>> ELSE <<c>>)
    ELSE LET t == l[Len(l)] * k + c
         IN  Append(MulLimbs(SubSeq(l, 1, Len(l) - 1), k, t \div Limb), t % Limb)

StripZeros(b) ==
    IF ~AnyOne(b) THEN <<>>
    ELSE SubSeq(b, (CHOOSE i \in 1..Len(b) : b[i] = 1 /\ \A j \in 1..(i - 1) : b[j] = 0), Len(b))

\* the exact product of a bit sequence and a small integer k
MulBits(b, k) ==
    LET nl == (Len(b) + 13 - 1) \div 13
        pad == nl * 13 - Len(b)
        padded == [i \in 1..pad |-> 0] \o b
        limbs == [i \in 1..nl |->
                    ValueOf(SubSeq(padded, (i - 1) * 13 + 1, i * 13))]
        prod == MulLimbs(limbs, k, 0)
        out == [i \in 1..(Len(prod) * 13) |->
                    BitsW(prod[((i - 1) \div 13) + 1], 13)[((i - 1) % 13) + 1]]
    IN  StripZeros(out)

\* x * k in float64, k a small positive integer
F64Mul(x, k) ==
    IF x.m = <<>> THEN F64Zero
    ELSE RoundNearestEven(MulBits(x.m, k), x.e, FALSE)

\* int(x) for x >= 0
Trunc(x) ==
    IF x.m = <<>> \/ 53 + x.e <= 0 THEN 0
    ELSE ValueOf(SubSeq(x.m, 1, 53 + x.e))

\* round(x, 2) for x >= 0, in hundredths: the exact binary value of x is
\* rounded half-even to two decimals
Round2(x) ==
    IF x.m = <<>> THEN 0
    ELSE LET p == MulBits(x.m, 100)
             n == Len(p) + x.e
         IN  IF n < 0 THEN 0
             ELSE LET I == ValueOf(SubSeq(p, 1, n))
                      g == IF n < Len(p) THEN p[n + 1] ELSE 0
                      st == AnyOne(SubSeq(p, n + 2, Len(p)))
                  IN  IF g = 1 /\ (st \/ I % 2 = 1) THEN I + 1 ELSE I

\* numpy rint(x) for x >= 0: the nearest integer, ties to even
Rint(x) ==
    IF x.m = <<>> THEN 0
    ELSE LET n == Len(x.m) + x.e
         IN  IF n < 0 THEN 0
             ELSE LET I == ValueOf(SubSeq(x.m, 1, n))
                      g == IF n < Len(x.m) THEN x.m[n + 1] ELSE 0
                      st == AnyOne(SubSeq(x.m, n + 2, Len(x.m)))
                  IN  IF g = 1 /\ (st \/ I % 2 = 1) THEN I + 1 ELSE I

\* Series.round(1) for x >= 0, in tenths: numpy scales by 10 and rounds to
\* the nearest integer
RoundTenths(x) == Rint(F64Mul(x, 10))

\* repr of the float h / 100 (h in hundredths): "33.33", "50.0", "0.0"
ReprHundredths(h) ==
    LET f == h % 100
    IN  ToString(h \div 100) \o "." \o
        (IF f % 10 = 0 THEN ToString(f \div 10)
         ELSE IF f < 10 THEN "0" \o ToString(f)
         ELSE ToString(f))

(***************************************************************************)
(* The fixed enumerations of the script.                                   *)
(***************************************************************************)
delivery_hubs == <<
    "Hebbal [ BH Micro warehouse ]",
    "Banashankari [ BH Micro warehouse ]",
    "Koramangala NGV [ BH Micro warehouse ]",
    "Mahadevapura [ BH Micro warehouse ]",
    "Chandra Layout [ BH Micro warehouse ]",
    "Kudlu [ BH Micro warehouse ]" >>

time_buckets == <<
    <<"12AM-1AM", 0, 1>>, <<"1AM-2AM", 1, 2>>, <<"2AM-3AM", 2, 3>>,
    <<"3AM-4AM", 3, 4>>, <<"4AM-5AM", 4, 5>>, <<"5AM-6AM", 5, 6>>,
    <<"6AM-9AM", 6, 9>>, <<"9AM-11AM", 9, 11>>, <<"11AM-1PM", 11, 13>>,
    <<"1PM-3PM", 13, 15>>, <<"3PM-4PM", 15, 16>>, <<"4PM-5PM", 16, 17>>,
    <<"5PM-6PM", 17, 18>>, <<"6PM-7PM", 18, 19>>, <<"7PM-9PM", 19, 21>>,
    <<"9PM-11PM", 21, 23>>, <<"11PM-12AM", 23, 24>> >>

specified_customers == <<
    "WESTSIDE UNIT OF TRENT LIMITED",
    "Herbalife Nutrition",
    "krishna ayurved",
    "Supertails",
    "ZISHTA TRADITIONS PRIVATE LIMITED",
    "The Whole Truth Foods",
    "Koskii",
    "Mokobara",
    "TATA CLiQ",
    "Ferns N Petals",
    "Curefit",
    "Assembly",
    "BHAWAR SALES CORPORATION" >>

\* a hub and a customer outside the enumerations, and the drivers and
\* vehicle models of the inputs explored
OtherHub == "Whitefield [ BH Micro warehouse ]"
OtherCustomer == "Nykaa"

(***************************************************************************)
(* The order in which Python compares the strings used as group keys       *)
(* (code-point order): groupby(..., sort=True) lists its groups this way.  *)
(***************************************************************************)
StringOrder == <<
    "11AM-1PM", "11PM-12AM", "12AM-1AM", "1AM-2AM", "1PM-3PM", "2AM-3AM",
    "3AM-4AM", "3PM-4PM", "4AM-5AM", "4PM-5PM", "5AM-6AM", "5PM-6PM",
    "6AM-9AM", "6PM-7PM", "7PM-9PM", "9AM-11AM", "9PM-11PM",
    "Assembly",
    "Auto Rickshaw",
    "BHAWAR SALES CORPORATION",
    "Banashankari [ BH Micro warehouse ]",
    "Bike",
    "Chandra Layout [ BH Micro warehouse ]",
    "Curefit",
    "D1", "D2", "D3",
    "Ferns N Petals",
    "Hebbal [ BH Micro warehouse ]",
    "Herbalife Nutrition",
    "Koramangala NGV [ BH Micro warehouse ]",
    "Koskii",
    "Kudlu [ BH Micro warehouse ]",
    "Mahadevapura [ BH Micro warehouse ]",
    "Mokobara",
    "Nykaa",
    "Supertails",
    "TATA CLiQ",
    "The Whole Truth Foods",
    "Truck",
    "WESTSIDE UNIT OF TRENT LIMITED",
    "Whitefield [ BH Micro warehouse ]",
    "ZISHTA TRADITIONS PRIVATE LIMITED",
    "krishna ayurved" >>

Rank(s) == CHOOSE i \in 1..Len(StringOrder) : StringOrder[i] = s

\* tuple comparison a < b of two keys of the same length
KeyLess(a, b) ==
    \E i \in 1..Len(a) :
        /\ \A j \in 1..(i - 1) : a[j] = b[j]
        /\ Rank(a[i]) < Rank(b[i])

\* the keys of a set in ascending order
SortKeys(S) ==
    [n \in 1..Cardinality(S) |->
        CHOOSE k \in S : Cardinality({j \in S : KeyLess(j, k)}) = n - 1]

\* the key of a row: its values in the columns `by`
KeyOf(r, by) == [j \in 1..Len(by) |-> r[by[j]]]

\* the keys of a set in the order the rows first show them (sort=False)
FirstSeenKeys(d, idx, by) ==
    LET S == {KeyOf(d[i], by) : i \in idx}
        first(k) == CHOOSE i \in idx :
                        KeyOf(d[i], by) = k /\ \A j \in idx : KeyOf(d[j], by) = k => i <= j
    IN  [n \in 1..Cardinality(S) |->
            CHOOSE k \in S : Cardinality({j \in S : first(j) < first(k)}) = n - 1]

\* DataFrame.groupby(by): the group keys of the rows idx of d, sorted
GroupKeys(d, idx, by) == SortKeys({KeyOf(d[i], by) : i \in idx})

\* the rows of one group
Members(d, idx, by, k) == {i \in idx : KeyOf(d[i], by) = k}

RECURSIVE FlattenRange(_, _, _)
FlattenRange(ss, lo, hi) ==
    IF lo > hi THEN <<>>
    ELSE IF lo = hi THEN ss[lo]
    ELSE LET mid == (lo + hi) \div 2
         IN  FlattenRange(ss, lo, mid) \o FlattenRange(ss, mid + 1, hi)

Flatten(ss) == FlattenRange(ss, 1, Len(ss))

RECURSIVE SumRange(_, _, _)
SumRange(f, lo, hi) ==
    IF lo > hi THEN 0
    ELSE IF lo = hi THEN f[lo]
    ELSE LET mid == (lo + hi) \div 2
         IN  SumRange(f, lo, mid) + SumRange(f, mid + 1, hi)

\* Series.sum() of an integer column
Sum(f) == SumRange(f, 1, Len(f))

\* left.merge(right, on=on, how='left'): every left row once per matching
\* right row, in the order of left; a left row without a match once, its
\* right side missing
MergeLeft(left, right, on) ==
    Flatten([i \in 1..Len(left) |->
        LET hits == {j \in 1..Len(right) : KeyOf(left[i], on) = KeyOf(right[j], on)}
            jj == [n \in 1..Cardinality(hits) |->
                      CHOOSE j \in hits : Cardinality({h \in hits : h < j}) = n - 1]
        IN  IF hits = {} THEN << [left |-> left[i], right |-> NaN] >>
            ELSE [n \in 1..Len(jj) |-> [left |-> left[i], right |-> << right[jj[n]] >>]]])

\* Series.fillna(0) on one cell
fillna0(v) == IF isna(v) THEN 0 ELSE v[1]

(***************************************************************************)
(* Percentages.                                                            *)
(***************************************************************************)
\* (n / t * 100).fillna(0).astype(int) on a Series: 0 / 0 is NaN, filled
SeriesPercent(n, t) ==
    IF t = 0 THEN 0 ELSE Trunc(F64Mul(F64Div(n, t), 100))

PercentStr(p) == ToString(p) \o "%"

VARIABLES
    df,                 \* the fetched order table, a sequence of rows
    columns,            \* df.columns: the columns the fetched table has
    selected_date,      \* the day picked in the sidebar
    selected_hub,       \* the hub picked in the sidebar
    pc,                 \* the block of the script that runs next
    shown,              \* the tables st.dataframe has displayed so far
    final_df,           \* Driver-wise Summary
    hub_wise_df,        \* Hub Wise Summary
    vehicle_utilization_df,
    time_distribution,
    customer_time_distribution,
    total_by_customer,  \* Total Orders by Customer
    peak_times          \* Peak Time Buckets

vars == << df, columns, selected_date, selected_hub, pc, shown, final_df, hub_wise_df,
           vehicle_utilization_df, time_distribution, customer_time_distribution,
           total_by_customer, peak_times >>

Order(driver, model, hub, status, customer, delivered, latest, unable, returned, picked, attempted, first) ==
    [ Driver_Vehicle |-> driver, Vehicle_Model |-> model, Delivery_Hub |-> hub,
      Status |-> status, Customer |-> customer,
      Delivered_on |-> delivered, Latest_Out_For_Delivery_on |-> latest,
      Last_Delivery_Unable_To |-> unable, Returned_Datetime_on |-> returned,
      Picked_on |-> picked, Last_attempted_on |-> attempted,
      First_Out_For_Delivery_on |-> first ]

(***************************************************************************)
(* Driver-wise Summary (lines 103-197).                                    *)
(***************************************************************************)
\* df[(Delivered on date == selected_date) & (Delivery Hub == selected_hub)]
filtered_df(d, date, hub) ==
    {i \in 1..Len(d) : DateIs(d[i].Delivered_on, date) /\ d[i].Delivery_Hub = hub}

out_on_road_df(d, date, hub) ==
    {i \in 1..Len(d) :
        /\ d[i].Status = "Out-For-Delivery"
        /\ DateIs(d[i].Latest_Out_For_Delivery_on, date)
        /\ d[i].Delivery_Hub = hub}

DriverKey == << "Driver_Vehicle" >>

out_on_road_grouped(d, date, hub) ==
    LET idx == out_on_road_df(d, date, hub)
        keys == GroupKeys(d, idx, DriverKey)
    IN  [n \in 1..Len(keys) |->
            [ Driver_Vehicle |-> keys[n][1],
              Out_on_road |-> Cardinality(Members(d, idx, DriverKey, keys[n])) ]]

DriverModelHubKey == << "Driver_Vehicle", "Vehicle_Model", "Delivery_Hub" >>

\* filtered_df.groupby([Driver Vehicle, Vehicle Model, Delivery Hub]).agg(...)
grouped_df(d, date, hub) ==
    LET idx == filtered_df(d, date, hub)
        keys == GroupKeys(d, idx, DriverModelHubKey)
    IN  [n \in 1..Len(keys) |->
            LET g == Members(d, idx, DriverModelHubKey, keys[n])
            IN  [ Driver_Vehicle |-> keys[n][1],
                  Vehicle_Model |-> keys[n][2],
                  Delivered |-> Cardinality({i \in g :
                      d[i].Status = "Delivered" /\ DateIs(d[i].Delivered_on, date)}),
                  Unable_to_delivery |-> Cardinality({i \in g :
                      ~isna(d[i].Last_Delivery_Unable_To)}),
                  Returned |-> Cardinality({i \in g :
                      ~isna(d[i].Returned_Datetime_on)}) ]]

WithOutOnRoad(l, r) ==
    [ Driver_Vehicle |-> l.Driver_Vehicle, Vehicle_Model |-> l.Vehicle_Model,
      Delivered |-> l.Delivered, Unable_to_delivery |-> l.Unable_to_delivery,
      Returned |-> l.Returned, Out_on_road |-> Num(r.Out_on_road) ]
WithoutOutOnRoad(l) ==
    [ Driver_Vehicle |-> l.Driver_Vehicle, Vehicle_Model |-> l.Vehicle_Model,
      Delivered |-> l.Delivered, Unable_to_delivery |-> l.Unable_to_delivery,
      Returned |-> l.Returned, Out_on_road |-> NaN ]

\* one displayed row: Out_on_road filled, the total and the percentage
DriverRow(m) ==
    LET oor == fillna0(m.Out_on_road)
        total == m.Delivered + m.Unable_to_delivery + m.Returned + oor
    IN  [ Delivery_Associate_Name |-> m.Driver_Vehicle,
          Vehicle_Model |-> m.Vehicle_Model,
          Total_order_count |-> total,
          Delivered |-> m.Delivered,
          Unable_to_delivery |-> m.Unable_to_delivery,
          Returned |-> m.Returned,
          Out_on_road |-> oor,
          Delivered_pct |-> PercentStr(SeriesPercent(m.Delivered, total)) ]

driver_rows(d, date, hub) ==
    LET merged == MergeLeft(grouped_df(d, date, hub), out_on_road_grouped(d, date, hub),
                            DriverKey)
    IN  [n \in 1..Len(merged) |->
            DriverRow(IF isna(merged[n].right) THEN WithoutOutOnRoad(merged[n].left)
                      ELSE WithOutOnRoad(merged[n].left, merged[n].right[1]))]

\* one column of a table
Column(rows, field) == [n \in 1..Len(rows) |-> rows[n][field]]

\* str(int(delivered / total * 100)) + '%' when total > 0, else '0%'
GrandDeliveredPct(delivered, total) ==
    IF total > 0 THEN PercentStr(Trunc(F64Mul(F64Div(delivered, total), 100)))
    ELSE "0%"

grand_total(rows) ==
    LET total == Sum(Column(rows, "Total_order_count"))
        delivered == Sum(Column(rows, "Delivered"))
    IN  [ Delivery_Associate_Name |-> "Grand Total",
          Vehicle_Model |-> "",
          Total_order_count |-> total,
          Delivered |-> delivered,
          Unable_to_delivery |-> Sum(Column(rows, "Unable_to_delivery")),
          Returned |-> Sum(Column(rows, "Returned")),
          Out_on_road |-> Sum(Column(rows, "Out_on_road")),
          Delivered_pct |-> GrandDeliveredPct(delivered, total) ]

\* pd.concat([final_df, grand_total.to_frame().T])
DriverSummaryTable(d, date, hub) ==
    LET rows == driver_rows(d, date, hub)
    IN  Append(rows, grand_total(rows))

\* the columns read up to the display of the Driver-wise Summary: lines
\* 104-107 and 117-140 raise KeyError on a missing one, lines 111-114 report
\* a missing Status and stop
DriverSummaryColumns ==
    { "Delivered_on", "Latest_Out_For_Delivery_on", "Last_Delivery_Unable_To",
      "Returned_Datetime_on", "Status", "Delivery_Hub", "Driver_Vehicle",
      "Vehicle_Model" }

DriverSummary ==
    /\ pc = "driver_summary"
    /\ IF DriverSummaryColumns \subseteq columns
       THEN /\ final_df' = DriverSummaryTable(df, selected_date, selected_hub)
            /\ shown' = Append(shown, "Driver-wise Summary")
            /\ pc' = "hub_summary"
       ELSE /\ pc' = "error"
            /\ UNCHANGED << final_df, shown >>
    /\ UNCHANGED << df, columns, selected_date, selected_hub, hub_wise_df,
                    vehicle_utilization_df, time_distribution,
                    customer_time_distribution, total_by_customer, peak_times >>

(***************************************************************************)
(* Hub Wise Summary (lines 212-342).                                       *)
(***************************************************************************)
DriverHubKey == << "Driver_Vehicle", "Delivery_Hub" >>
DriverHubModelKey == << "Driver_Vehicle", "Delivery_Hub", "Vehicle_Model" >>
HubKey == << "Delivery_Hub" >>

\* df[Latest Out-For-Delivery on date == selected_date]
ActiveRows(d, date) ==
    {i \in 1..Len(d) : DateIs(d[i].Latest_Out_For_Delivery_on, date)}

\* filtered_df.groupby(keys)['Delivered on'].count().reset_index()
driver_hub_counts(d, date, Key) ==
    LET idx == ActiveRows(d, date)
        keys == GroupKeys(d, idx, Key)
    IN  [n \in 1..Len(keys) |->
            [ key |-> keys[n],
              Driver_Vehicle |-> keys[n][1],
              Delivery_Hub |-> keys[n][2],
              Delivery_Count |-> Cardinality({i \in Members(d, idx, Key, keys[n]) :
                                                 ~isna(d[i].Delivered_on)}) ]]

\* Series.idxmax() over the rows S of counts: the first row holding the maximum
idxmax(counts, S) ==
    CHOOSE i \in S :
        /\ \A j \in S : counts[j].Delivery_Count <= counts[i].Delivery_Count
        /\ \A j \in S : j < i => counts[j].Delivery_Count < counts[i].Delivery_Count

\* every (driver, hub) row kept, without the idxmax selection
AllDriverHubRows(counts) == counts

\* driver_hub_counts.loc[driver_hub_counts.groupby('Driver Vehicle')
\*                       ['Delivery_Count'].idxmax()]
primary_hub(counts) ==
    LET all == 1..Len(counts)
        drivers == GroupKeys(counts, all, DriverKey)
    IN  [n \in 1..Len(drivers) |->
            counts[idxmax(counts, Members(counts, all, DriverKey, drivers[n]))]]

\* rows.groupby('Delivery Hub')['Driver Vehicle'].nunique().reset_index()
NuniqueDriversByHub(rows) ==
    LET all == 1..Len(rows)
        hubs == GroupKeys(rows, all, HubKey)
    IN  [n \in 1..Len(hubs) |->
            [ Delivery_Hub |-> hubs[n][1],
              n |-> Cardinality({rows[i].Driver_Vehicle :
                                    i \in Members(rows, all, HubKey, hubs[n])}) ]]

calculate_number_of_vehicle(d, date) ==
    NuniqueDriversByHub(primary_hub(driver_hub_counts(d, date, DriverHubKey)))

\* both timestamps compared with the 15:00 cutoff
backlog_df_cutoff(d, date) ==
    LET cutoff_time == At(date, 15, 0)
    IN  {i \in 1..Len(d) :
            /\ TsLess(d[i].Picked_on, cutoff_time)
            /\ TsLess(d[i].Last_attempted_on, cutoff_time)
            /\ d[i].Status \in {"Picked", "At-Hub", "Returned-To-Hub"}}

\* the rows of backlog_df
backlog_df(d, date) ==
    LET cutoff_time == At(date, 15, 0)
    IN  {i \in 1..Len(d) :
            /\ TsLess(d[i].Picked_on, cutoff_time)
            /\ TsLess(d[i].Last_attempted_on, At(date, 0, 0))
            /\ d[i].Status \in {"Picked", "At-Hub", "Returned-To-Hub"}}

calculate_backlogs(d, date) ==
    LET idx == backlog_df(d, date)
        hubs == GroupKeys(d, idx, HubKey)
    IN  [n \in 1..Len(hubs) |->
            [ Delivery_Hub |-> hubs[n][1],
              n |-> Cardinality(Members(d, idx, HubKey, hubs[n])) ]]

\* the value merged in from a per-hub table, NaN where the hub has no row
HubLookup(table, hub) ==
    IF \E j \in 1..Len(table) : table[j].Delivery_Hub = hub
    THEN Num(table[CHOOSE j \in 1..Len(table) : table[j].Delivery_Hub = hub].n)
    ELSE NaN

\* the row count of line 271 left in place
HubTotalRowCount(size, delivered, unable, returned, oor) == size

\* Total_order_count as displayed: the sum of the four outcome counts
\* (line 299 overwrites the row count of line 271)
HubTotal(size, delivered, unable, returned, oor) ==
    delivered + unable + returned + oor

\* df.groupby('Delivery Hub').agg(...) with the merges, fills, total and
\* percentages of lines 270-328
hub_rows(d, date) ==
    LET all == 1..Len(d)
        hubs == GroupKeys(d, all, HubKey)
        number_of_vehicle_df == calculate_number_of_vehicle(d, date)
        backlog_counts_df == calculate_backlogs(d, date)
    IN  [n \in 1..Len(hubs) |->
            LET g == Members(d, all, HubKey, hubs[n])
                delivered == Cardinality({i \in g :
                    d[i].Status = "Delivered" /\ DateIs(d[i].Delivered_on, date)})
                unable == Cardinality({i \in g :
                    DateIs(d[i].Last_Delivery_Unable_To, date)})
                returned == Cardinality({i \in g :
                    DateIs(d[i].Returned_Datetime_on, date)})
                oor == Cardinality({i \in g :
                    /\ d[i].Status = "Out-For-Delivery"
                    /\ DateIs(d[i].Latest_Out_For_Delivery_on, date)})
                total == HubTotal(Cardinality(g), delivered, unable, returned, oor)
            IN  [ Hub_Name |-> hubs[n][1],
                  Number_of_Vehicle |-> fillna0(HubLookup(number_of_vehicle_df, hubs[n][1])),
                  Total_order_count |-> total,
                  Delivered |-> delivered,
                  Unable_to_Delivery |-> unable,
                  Returned |-> returned,
                  Out_on_Road |-> oor,
                  Attempt_pct |-> PercentStr(SeriesPercent(delivered + unable + returned, total)),
                  Delivered_pct |-> PercentStr(SeriesPercent(delivered, total)),
                  Backlogs |-> fillna0(HubLookup(backlog_counts_df, hubs[n][1])) ]]

\* the sums of hub_wise_df.sum(numeric_only=True)
HubSums(rows) ==
    [ Number_of_Vehicle |-> Sum(Column(rows, "Number_of_Vehicle")),
      Total_order_count |-> Sum(Column(rows, "Total_order_count")),
      Delivered |-> Sum(Column(rows, "Delivered")),
      Unable_to_Delivery |-> Sum(Column(rows, "Unable_to_Delivery")),
      Returned |-> Sum(Column(rows, "Returned")),
      Out_on_Road |-> Sum(Column(rows, "Out_on_Road")),
      Backlogs |-> Sum(Column(rows, "Backlogs")) ]

\* lines 333-334 divide by the summed Total_order_count without a guard:
\* on 0 the division (or the int() of its NaN) raises
GrandTotalRaises(rows) == HubSums(rows).Total_order_count = 0

grand_total_hub(rows) ==
    LET t == HubSums(rows)
    IN  [ Hub_Name |-> "Grand Total",
          Number_of_Vehicle |-> t.Number_of_Vehicle,
          Total_order_count |-> t.Total_order_count,
          Delivered |-> t.Delivered,
          Unable_to_Delivery |-> t.Unable_to_Delivery,
          Returned |-> t.Returned,
          Out_on_Road |-> t.Out_on_Road,
          Attempt_pct |-> PercentStr(Trunc(F64Mul(
              F64Div(t.Delivered + t.Unable_to_Delivery + t.Returned,
                     t.Total_order_count), 100))),
          Delivered_pct |-> PercentStr(Trunc(F64Mul(
              F64Div(t.Delivered, t.Total_order_count), 100))),
          Backlogs |-> t.Backlogs ]

\* The block either appends the Grand Total row and displays the table, or
\* raises at line 333, which ends the run with hub_wise_df left without
\* that row and nothing displayed.
\* calculate_backlogs reads these (lines 245-246): KeyError on a missing one
BacklogColumns == { "Picked_on", "Last_attempted_on" }

HubSummary ==
    /\ pc = "hub_summary"
    /\ IF ~(BacklogColumns \subseteq columns)
       THEN /\ pc' = "error"
            /\ UNCHANGED << hub_wise_df, shown >>
       ELSE LET rows == hub_rows(df, selected_date)
            IN  IF GrandTotalRaises(rows)
                THEN /\ hub_wise_df' = rows
                     /\ pc' = "error"
                     /\ shown' = shown
                ELSE /\ hub_wise_df' = Append(rows, grand_total_hub(rows))
                     /\ pc' = "vehicle_utilization"
                     /\ shown' = Append(shown, "Hub Wise Summary")
    /\ UNCHANGED << df, columns, selected_date, selected_hub, final_df,
                    vehicle_utilization_df, time_distribution,
                    customer_time_distribution, total_by_customer, peak_times >>

(***************************************************************************)
(* Vehicle Utilization (lines 354-462).                                    *)
(***************************************************************************)
IsBike(r) == r.key[3] = "Bike"
IsAuto(r) == r.key[3] = "Auto Rickshaw"

\* a per-hub count after the outer merge and fillna(0) of lines 394-398
CountAt(table, hub) == fillna0(HubLookup(table, hub))

calculate_vehicle_counts(d, date) ==
    LET primary == primary_hub(driver_hub_counts(d, date, DriverHubModelKey))
        bikes_count == NuniqueDriversByHub(SelectSeq(primary, IsBike))
        autos_count == NuniqueDriversByHub(SelectSeq(primary, IsAuto))
        hubs == SortKeys({<<bikes_count[j].Delivery_Hub>> : j \in 1..Len(bikes_count)}
                         \cup {<<autos_count[j].Delivery_Hub>> : j \in 1..Len(autos_count)})
    IN  [n \in 1..Len(hubs) |->
            [ Delivery_Hub |-> hubs[n][1],
              Count_of_Bikes |-> CountAt(bikes_count, hubs[n][1]),
              Count_of_Autos |-> CountAt(autos_count, hubs[n][1]) ]]

\* a count merged in from vehicle_counts_df (how='left', line 414): NaN for
\* a hub that vehicle_counts_df has no row for
VehicleCount(table, hub, field) ==
    IF \E j \in 1..Len(table) : table[j].Delivery_Hub = hub
    THEN Num(table[CHOOSE j \in 1..Len(table) : table[j].Delivery_Hub = hub][field])
    ELSE NaN

\* a + b on two float cells
AddCells(a, b) == IF isna(a) \/ isna(b) THEN NaN ELSE Num(a[1] + b[1])

\* the nunique of line 410 left in place
TotalCountNunique(nunique, bikes, autos) == Num(nunique)

\* Total_count as displayed: bikes + autos (line 417 overwrites the
\* nunique of line 410)
TotalCount(nunique, bikes, autos) == AddCells(bikes, autos)

\* round((count / total).fillna(0) * 100, 2), in hundredths of a percent
RatioHundredths(count, total) ==
    IF isna(count) \/ isna(total) THEN 0
    ELSE Round2(F64Mul(F64Div(count[1], total[1]), 100))

\* f"{round(x * 100, 2)}%"
RatioStr(h) == ReprHundredths(h) \o "%"

\* round((Delivered / Total_count).fillna(0), 2), in hundredths
AvgProductivity(delivered, total) ==
    IF isna(total) THEN 0 ELSE Round2(F64Div(delivered, total[1]))

DeliveredAt(hub_table, hub) ==
    hub_table[CHOOSE j \in 1..Len(hub_table) : hub_table[j].Hub_Name = hub].Delivered

vehicle_utilization_rows(d, date, hub_table) ==
    LET all == 1..Len(d)
        hubs == GroupKeys(d, all, HubKey)
        vehicle_counts_df == calculate_vehicle_counts(d, date)
    IN  [n \in 1..Len(hubs) |->
            LET g == Members(d, all, HubKey, hubs[n])
                bikes == VehicleCount(vehicle_counts_df, hubs[n][1], "Count_of_Bikes")
                autos == VehicleCount(vehicle_counts_df, hubs[n][1], "Count_of_Autos")
                total == TotalCount(Cardinality({d[i].Driver_Vehicle : i \in g}),
                                    bikes, autos)
                rb == RatioHundredths(bikes, total)
                ra == RatioHundredths(autos, total)
            IN  [ Hub_Name |-> hubs[n][1],
                  Count_of_Bikes |-> bikes,
                  Count_of_Autos |-> autos,
                  Total_count |-> total,
                  ratio_bikes |-> rb,
                  ratio_autos |-> ra,
                  Ratio_Bikes |-> RatioStr(rb),
                  Ratio_Auto_Rickshaw |-> RatioStr(ra),
                  Avg_Productivity_per_Driver |->
                      AvgProductivity(DeliveredAt(hub_table, hubs[n][1]), total) ]]

VehicleUtilization ==
    /\ pc = "vehicle_utilization"
    /\ vehicle_utilization_df' = vehicle_utilization_rows(df, selected_date, hub_wise_df)
    /\ shown' = Append(shown, "Vehicle Utilization")
    /\ pc' = "hub_time_distribution"
    /\ UNCHANGED << df, columns, selected_date, selected_hub, final_df, hub_wise_df,
                    time_distribution, customer_time_distribution,
                    total_by_customer, peak_times >>

(***************************************************************************)
(* Time buckets (lines 483-535 and 641-667).                               *)
(***************************************************************************)
None == <<>>

\* the bucket test written start < hour <= end
categorize_time_late(timestamp) ==
    IF isna(timestamp) THEN None
    ELSE LET hour == timestamp[2]
             hits == {b \in 1..Len(time_buckets) :
                         time_buckets[b][2] < hour /\ hour <= time_buckets[b][3]}
         IN  IF hits = {} THEN None
             ELSE << time_buckets[CHOOSE b \in hits : \A c \in hits : b <= c][1] >>

\* the bucket of a timestamp, <<label>>, or None
categorize_time(timestamp) ==
    IF isna(timestamp) THEN None
    ELSE LET hour == timestamp[2]
             hits == {b \in 1..Len(time_buckets) :
                         time_buckets[b][2] <= hour /\ hour < time_buckets[b][3]}
         IN  IF hits = {} THEN None
             ELSE << time_buckets[CHOOSE b \in hits : \A c \in hits : b <= c][1] >>

bucket_labels == [b \in 1..Len(time_buckets) |-> time_buckets[b][1]]

\* pd.MultiIndex.from_product([names, labels]).to_frame(index=False)
from_product(names, labels) ==
    [n \in 1..(Len(names) * Len(labels)) |->
        [ name |-> names[((n - 1) \div Len(labels)) + 1],
          Time_Bucket |-> labels[((n - 1) % Len(labels)) + 1] ]]

\* rows.groupby([name, 'Time Bucket']).size().reset_index(name='Count'):
\* rows whose bucket is None fall out of the groups
BucketCounts(d, idx, Name, Stamp) ==
    LET in == {i \in idx : categorize_time(d[i][Stamp]) # None}
        bucketed == [i \in in |-> [ name |-> d[i][Name],
                                    Time_Bucket |-> categorize_time(d[i][Stamp])[1] ]]
        by == << "name", "Time_Bucket" >>
        keys == GroupKeys(bucketed, in, by)
    IN  [n \in 1..Len(keys) |->
            [ name |-> keys[n][1], Time_Bucket |-> keys[n][2],
              Count |-> Cardinality(Members(bucketed, in, by, keys[n])) ]]

SameCell(l, r) == l.name = r.name /\ l.Time_Bucket = r.Time_Bucket
WithCount(l, r) == [ name |-> l.name, Time_Bucket |-> l.Time_Bucket, Count |-> r.Count ]
\* the NaN of an unmatched combination, after .fillna(0)
WithZero(l) == [ name |-> l.name, Time_Bucket |-> l.Time_Bucket, Count |-> fillna0(NaN) ]

\* the merge done with how='inner': combinations without a count drop out
DenseCountsInner(names, counts) ==
    LET all == from_product(names, bucket_labels)
        kept == SelectSeq(all, LAMBDA l : \E j \in 1..Len(counts) : SameCell(l, counts[j]))
    IN  [n \in 1..Len(kept) |->
            WithCount(kept[n], counts[CHOOSE j \in 1..Len(counts) : SameCell(kept[n], counts[j])])]

\* all_combinations.merge(counts, on=[name, 'Time Bucket'], how='left').fillna(0)
DenseCounts(names, counts) ==
    LET merged == MergeLeft(from_product(names, bucket_labels), counts,
                            << "name", "Time_Bucket" >>)
    IN  [n \in 1..Len(merged) |->
            IF isna(merged[n].right) THEN WithZero(merged[n].left)
            ELSE WithCount(merged[n].left, merged[n].right[1])]

HubName == "Delivery_Hub"
FirstOutForDelivery == "First_Out_For_Delivery_on"

hub_time_distribution(d, date) ==
    LET filtered == {i \in 1..Len(d) : DateIs(d[i].First_Out_For_Delivery_on, date)}
    IN  DenseCounts(delivery_hubs, BucketCounts(d, filtered, HubName, FirstOutForDelivery))

HubTimeDistribution ==
    /\ pc = "hub_time_distribution"
    /\ IF "First_Out_For_Delivery_on" \in columns
       THEN /\ time_distribution' = hub_time_distribution(df, selected_date)
            /\ shown' = Append(shown, "Time Bucket Counts by Delivery Hub")
       ELSE \* st.warning of line 617
            UNCHANGED << time_distribution, shown >>
    /\ pc' = "customer_time_distribution"
    /\ UNCHANGED << df, columns, selected_date, selected_hub, final_df, hub_wise_df,
                    vehicle_utilization_df, customer_time_distribution,
                    total_by_customer, peak_times >>

CustomerName == "Customer"
PickedOn == "Picked_on"
InList(x, list) == \E j \in 1..Len(list) : list[j] = x

customer_time_dist(d, date) ==
    LET picked_df == {i \in 1..Len(d) :
                         /\ DateIs(d[i].Picked_on, date)
                         /\ InList(d[i].Customer, specified_customers)}
    IN  DenseCounts(specified_customers, BucketCounts(d, picked_df, CustomerName, PickedOn))

\* rows.sort_values('Count', ascending=False); the sort is not a stable
\* one, so rows with equal Count come out in their order or in the reverse
sort_values(rows, reversed) ==
    LET all == 1..Len(rows)
        before(i) == {j \in all :
                         \/ rows[j].Count > rows[i].Count
                         \/ /\ rows[j].Count = rows[i].Count
                            /\ IF reversed THEN j > i ELSE j < i}
    IN  [n \in all |-> rows[CHOOSE i \in all : Cardinality(before(i)) = n - 1]]

\* the rows of a matrix that add to a sum of Count
Counted(matrix) == {n \in 1..Len(matrix) : matrix[n].Count # 0}

\* the sum of Count over the rows of a matrix whose column `field` holds
\* `value`; counted are the rows of Counted(matrix)
CountWhere(matrix, counted, field, value) ==
    LET at == {n \in counted : matrix[n][field] = value}
        ordered == [k \in 1..Cardinality(at) |->
                       CHOOSE n \in at : Cardinality({o \in at : o < n}) = k - 1]
    IN  Sum([k \in 1..Len(ordered) |-> matrix[ordered[k]].Count])

\* (rows['Count'] / total_orders * 100).round(1), in tenths of a percent:
\* a Series divided by 0.0 gives NaN, which round keeps
Percentage(count, total_orders) ==
    IF total_orders = 0 THEN NaN
    ELSE Num(RoundTenths(F64Mul(F64Div(count, total_orders), 100)))

WithPercentage(rows, total_orders) ==
    [n \in 1..Len(rows) |->
        [ name |-> rows[n].name, Count |-> rows[n].Count,
          Percentage |-> Percentage(rows[n].Count, total_orders) ]]

\* customer_time_distribution.groupby('Customer')['Count'].sum()
CountByCustomer(matrix) ==
    LET keys == GroupKeys(matrix, 1..Len(matrix), << "name" >>)
        counted == Counted(matrix)
    IN  [n \in 1..Len(keys) |->
            [ name |-> keys[n][1],
              Count |-> CountWhere(matrix, counted, "name", keys[n][1]) ]]

\* customer_time_distribution.groupby('Time Bucket')['Count'].sum(): the
\* column is categorical, the groups are the categories in their order
CountByBucket(matrix) ==
    LET counted == Counted(matrix)
    IN  [b \in 1..Len(bucket_labels) |->
            [ name |-> bucket_labels[b],
              Count |-> CountWhere(matrix, counted, "Time_Bucket", bucket_labels[b]) ]]

CustomerTimeDistribution ==
    /\ pc = "customer_time_distribution"
    /\ IF "Picked_on" \notin columns
       THEN \* st.warning of line 793
            /\ pc' = "done"
            /\ UNCHANGED << customer_time_distribution, total_by_customer,
                            peak_times, shown >>
       ELSE IF "Customer" \notin columns
       THEN \* KeyError at line 648
            /\ pc' = "error"
            /\ UNCHANGED << customer_time_distribution, total_by_customer,
                            peak_times, shown >>
       ELSE
        /\ \E matrix \in {customer_time_dist(df, selected_date)} :
           \E by_customer \in {CountByCustomer(matrix)},
              by_bucket \in {CountByBucket(matrix)} :
           \E total_orders \in {Sum(Column(by_customer, "Count"))},
              reversed \in BOOLEAN :
               /\ customer_time_distribution' = matrix
               /\ total_by_customer' =
                      WithPercentage(sort_values(by_customer, reversed), total_orders)
               /\ peak_times' =
                      WithPercentage(sort_values(by_bucket, reversed), total_orders)
        /\ shown' = Append(shown, "Picked On Time Bucket Counts by Customer")
        /\ pc' = "done"
    /\ UNCHANGED << df, columns, selected_date, selected_hub, final_df, hub_wise_df,
                    vehicle_utilization_df, time_distribution >>

Next ==
    \/ DriverSummary
    \/ HubSummary
    \/ VehicleUtilization
    \/ HubTimeDistribution
    \/ CustomerTimeDistribution

(***************************************************************************)
(* Inputs.  fetch_metabase_data returns a table only when the query gave   *)
(* at least one row, so df is never empty.  Day 1 is the selected date,    *)
(* day 0 the day before.  Every specification runs the whole script; they  *)
(* differ in the orders the table is drawn from.                           *)
(***************************************************************************)
MaxRows == 3

\* all tables of 1..MaxRows rows over a set of orders
Tables(S) == UNION {[1..n -> S] : n \in 1..MaxRows}

\* the columns the script reads
required_columns ==
    { "Status", "Delivered_on", "Latest_Out_For_Delivery_on",
      "Last_Delivery_Unable_To", "Returned_Datetime_on", "Delivery_Hub",
      "Driver_Vehicle", "Vehicle_Model", "Picked_on", "Last_attempted_on",
      "First_Out_For_Delivery_on", "Customer" }

InitFrom(tables, column_sets, dates, hubs) ==
    /\ df \in tables
    /\ columns \in column_sets
    /\ selected_date \in dates
    /\ selected_hub \in hubs
    /\ pc = "driver_summary"
    /\ shown = <<>>
    /\ final_df = <<>>
    /\ hub_wise_df = <<>>
    /\ vehicle_utilization_df = <<>>
    /\ time_distribution = <<>>
    /\ customer_time_distribution = <<>>
    /\ total_by_customer = <<>>
    /\ peak_times = <<>>

\* a fetched table with every column
InitWith(tables, dates, hubs) == InitFrom(tables, {required_columns}, dates, hubs)

Hebbal == delivery_hubs[1]
Banashankari == delivery_hubs[2]

\* what happened to an order: status, Delivered on, Latest Out-For-Delivery
\* on, Last Delivery Unable-To, Returned Datetime on
Outcome(status, delivered, latest, unable, returned) ==
    [ Status |-> status, Delivered_on |-> delivered,
      Latest_Out_For_Delivery_on |-> latest,
      Last_Delivery_Unable_To |-> unable, Returned_Datetime_on |-> returned ]

DeliveredToday == Outcome("Delivered", At(1, 10, 0), At(1, 9, 0), NaT, NaT)
DeliveredYesterday == Outcome("Delivered", At(0, 10, 0), At(0, 9, 0), NaT, NaT)
OnRoadToday == Outcome("Out-For-Delivery", NaT, At(1, 9, 0), NaT, NaT)
UnableToday == Outcome("Unable-To-Deliver", NaT, At(1, 9, 0), At(1, 11, 0), NaT)
UnableYesterday == Outcome("Unable-To-Deliver", NaT, At(0, 9, 0), At(0, 11, 0), NaT)
ReturnedToday == Outcome("Returned", NaT, At(1, 9, 0), NaT, At(1, 18, 0))
DeliveredThenReturned == Outcome("Delivered", At(1, 10, 0), At(1, 9, 0), NaT, At(1, 18, 0))

OrderOf(driver, model, hub, o) ==
    Order(driver, model, hub, o.Status, OtherCustomer, o.Delivered_on,
          o.Latest_Out_For_Delivery_on, o.Last_Delivery_Unable_To,
          o.Returned_Datetime_on, NaT, NaT, NaT)

\* Driver-wise Summary: two drivers of the selected hub with every outcome,
\* and one order of another hub
DriverOrders ==
    { OrderOf(dr, "Bike", Hebbal, o) :
        dr \in {"D1", "D2"},
        o \in {DeliveredToday, OnRoadToday, UnableToday, ReturnedToday,
               DeliveredThenReturned} }
    \cup { OrderOf("D1", "Bike", Banashankari, DeliveredToday) }

Init == InitWith(Tables(DriverOrders), {1}, {Hebbal})

Spec == Init /\ [][Next]_vars

\* Hub Wise Summary: two hubs, outcomes dated the selected date or the day
\* before
HubOrders ==
    { OrderOf("D1", "Bike", Hebbal, o) :
        o \in {DeliveredToday, DeliveredYesterday, OnRoadToday, UnableToday,
               UnableYesterday, ReturnedToday} }
    \cup { OrderOf("D2", "Bike", Banashankari, o) :
             o \in {DeliveredToday, DeliveredYesterday} }

InitHub == InitWith(Tables(HubOrders), {1}, {Hebbal})

SpecHub == InitHub /\ [][Next]_vars

\* Backlogs: orders waiting at a hub
Waiting(hub, status, picked, attempted) ==
    Order("D1", "Bike", hub, status, OtherCustomer, NaT, NaT, NaT, NaT,
          picked, attempted, NaT)

BacklogOrders ==
    { Waiting(Hebbal, "At-Hub", pa[1], pa[2]) :
        pa \in { <<At(1, 14, 0), At(0, 12, 0)>>,
                 <<At(1, 16, 0), At(0, 12, 0)>>,
                 <<At(1, 15, 0), At(0, 23, 59)>>,
                 <<At(1, 14, 0), At(1, 0, 0)>>,
                 <<NaT, At(0, 12, 0)>>,
                 <<At(1, 14, 0), NaT>> } }
    \cup { Waiting(Banashankari, "Picked", At(0, 20, 0), At(0, 21, 0)),
           Waiting(Banashankari, "Returned-To-Hub", At(1, 14, 59), At(0, 12, 0)),
           Waiting(Hebbal, "Out-For-Delivery", At(1, 14, 0), At(0, 12, 0)),
           OrderOf("D1", "Bike", Hebbal, DeliveredToday) }

InitBacklog == InitWith(Tables(BacklogOrders), {1}, {Hebbal})

SpecBacklog == InitBacklog /\ [][Next]_vars

\* Fleet: drivers out for delivery at one or two hubs
Active(driver, model, hub) == OrderOf(driver, model, hub, DeliveredToday)

FleetOrders ==
    { Active("D1", "Bike", Hebbal),
      Active("D1", "Bike", Banashankari),
      Active("D2", "Auto Rickshaw", Hebbal),
      Active("D3", "Bike", Hebbal),
      Active("D3", "Truck", OtherHub),
      OrderOf("D2", "Auto Rickshaw", Banashankari, OnRoadToday),
      OrderOf("D2", "Auto Rickshaw", Banashankari, DeliveredYesterday),
      OrderOf("D1", "Bike", Hebbal, DeliveredYesterday) }

InitFleet == InitWith(Tables(FleetOrders), {1}, {Hebbal})

SpecFleet == InitFleet /\ [][Next]_vars

\* Fleet with a driver recorded under two vehicle models
MixedFleetOrders ==
    { Active("D1", "Bike", Hebbal),
      Active("D1", "Auto Rickshaw", Hebbal),
      Active("D1", "Bike", Banashankari),
      Active("D2", "Auto Rickshaw", Hebbal),
      Active("D2", "Auto Rickshaw", Banashankari) }

InitMixedFleet == InitWith(Tables(MixedFleetOrders), {1}, {Hebbal})

SpecMixedFleet == InitMixedFleet /\ [][Next]_vars

\* Time buckets: first out-for-delivery and pick-up times
Timed(hub, customer, first, picked) ==
    Order("D1", "Bike", hub, "Delivered", customer, At(1, 12, 0), At(1, 9, 0),
          NaT, NaT, picked, NaT, first)

TimedOrders ==
    { Timed(Hebbal, "Koskii", At(1, 9, 30), At(1, 7, 0)),
      Timed(Hebbal, "Koskii", At(1, 10, 59), At(1, 8, 59)),
      Timed(Hebbal, "Curefit", At(1, 11, 0), At(1, 7, 0)),
      Timed(Banashankari, "Curefit", At(1, 23, 10), At(1, 0, 5)),
      Timed(OtherHub, OtherCustomer, At(1, 9, 30), At(1, 7, 0)),
      Timed(Banashankari, "Koskii", At(0, 9, 0), At(0, 7, 0)),
      Timed(Hebbal, "krishna ayurved", NaT, NaT) }

InitTime == InitWith(Tables(TimedOrders), {1}, {Hebbal})

SpecTime == InitTime /\ [][Next]_vars

\* Many orders of one driver: delivered today, or still on the road
MaxBulkDelivered == 29
MaxBulkOnRoad == 21

Bulk(nDelivered, nOnRoad) ==
    [i \in 1..nDelivered |-> OrderOf("D1", "Bike", Hebbal, DeliveredToday)]
    \o [i \in 1..nOnRoad |-> OrderOf("D1", "Bike", Hebbal, OnRoadToday)]

BulkTables ==
    { Bulk(nd, no) : nd \in 0..MaxBulkDelivered, no \in 0..MaxBulkOnRoad } \ { <<>> }

InitBulk == InitWith(BulkTables, {1}, {Hebbal})

SpecBulk == InitBulk /\ [][Next]_vars

\* Time distributions: one order, timed at any hour of the day, at the
\* start, in the middle or in the last minute of the hour, or not timed
ClockMinutes == {0, 30, 59}

ClockOrders ==
    { Timed(Hebbal, "Koskii", At(1, h, m), At(1, 23 - h, m)) :
          h \in 0..23, m \in ClockMinutes }
    \cup { Timed(Hebbal, "Koskii", NaT, NaT) }

InitClock == InitWith({<< o >> : o \in ClockOrders}, {1}, {Hebbal})

SpecClock == InitClock /\ [][Next]_vars

\* A fetched table with every column or with one column missing
ColumnOrders ==
    { Timed(Hebbal, "Koskii", At(1, 9, 30), At(1, 7, 0)),
      Timed(Banashankari, "Curefit", At(1, 23, 10), At(0, 14, 5)) }

ColumnSets == {required_columns} \cup {required_columns \ {c} : c \in required_columns}

InitColumns == InitFrom(Tables(ColumnOrders), ColumnSets, {1}, {Hebbal})

SpecColumns == InitColumns /\ [][Next]_vars

(***************************************************************************)
(* Properties.                                                             *)
(***************************************************************************)
DriverSummaryDone == pc # "driver_summary"
HubSummaryDone == pc \notin {"driver_summary", "hub_summary"}
VehicleUtilizationDone ==
    pc \in {"hub_time_distribution", "customer_time_distribution", "done"}

Rows == 1..Len(df)
DriversOf(d) == {d[i].Driver_Vehicle : i \in 1..Len(d)}

\* the orders of driver D in the selected hub
OrdersOf(D) ==
    {i \in Rows : df[i].Driver_Vehicle = D /\ df[i].Delivery_Hub = selected_hub}

DeliveredOn(i) ==
    df[i].Status = "Delivered" /\ DateIs(df[i].Delivered_on, selected_date)

\* D has exactly 3 orders in the selected hub: 2 Delivered on the selected
\* date and 1 returned one, none unable, none out for delivery
ThreeOrderScenario(D) ==
    /\ Cardinality(OrdersOf(D)) = 3
    /\ Cardinality({i \in OrdersOf(D) : DeliveredOn(i)}) = 2
    /\ Cardinality({i \in OrdersOf(D) :
           ~DeliveredOn(i) /\ ~isna(df[i].Returned_Datetime_on)}) = 1
    /\ \A i \in OrdersOf(D) : isna(df[i].Last_Delivery_Unable_To)
    /\ \A i \in OrdersOf(D) : DeliveredOn(i) => isna(df[i].Returned_Datetime_on)
    /\ \A i \in OrdersOf(D) : df[i].Status # "Out-For-Delivery"

\* C1: a driver with 2 orders Delivered on the selected date and 1 returned
\* order in the selected hub, and nothing on the road, has the Driver
\* Summary row Delivered=2, Unable=0, Returned=1, Out on road=0, Total=3,
\* Delivered %="66%"
C1_ThreeOrderRow ==
    DriverSummaryDone =>
        \A D \in DriversOf(df) :
            ThreeOrderScenario(D) =>
                \E n \in 1..Len(final_df) :
                    /\ final_df[n].Delivery_Associate_Name = D
                    /\ final_df[n].Delivered = 2
                    /\ final_df[n].Unable_to_delivery = 0
                    /\ final_df[n].Returned = 1
                    /\ final_df[n].Out_on_road = 0
                    /\ final_df[n].Total_order_count = 3
                    /\ final_df[n].Delivered_pct = "66%"

HubRows == {n \in 1..Len(hub_wise_df) : hub_wise_df[n].Hub_Name # "Grand Total"}

NoOrderMatches ==
    \A n \in HubRows :
        /\ hub_wise_df[n].Delivered = 0
        /\ hub_wise_df[n].Unable_to_Delivery = 0
        /\ hub_wise_df[n].Returned = 0
        /\ hub_wise_df[n].Out_on_Road = 0

\* C2: when no order matches the selected date the Hub Summary completes
\* without an error and every Attempt % and Delivered %, the Grand Total
\* row's included, is "0%"
C2_HubZeroDenominator ==
    (HubSummaryDone /\ NoOrderMatches) =>
        /\ pc # "error"
        /\ hub_wise_df # <<>>
        /\ hub_wise_df[Len(hub_wise_df)].Hub_Name = "Grand Total"
        /\ \A n \in 1..Len(hub_wise_df) :
               /\ hub_wise_df[n].Attempt_pct = "0%"
               /\ hub_wise_df[n].Delivered_pct = "0%"

\* the sum of a column of final_df over the rows before the last
DriverColumnSum(field) ==
    Sum([n \in 1..(Len(final_df) - 1) |-> final_df[n][field]])

\* C3: the Driver Summary ends with exactly one Grand Total row, whose
\* numeric columns are the column sums of the other rows and whose
\* Delivered % is floor(100 * delivered / total), "0%" when the total is 0
C3_DriverGrandTotal ==
    DriverSummaryDone =>
        LET g == final_df[Len(final_df)]
        IN  /\ Len(final_df) >= 1
            /\ g.Delivery_Associate_Name = "Grand Total"
            /\ \A n \in 1..(Len(final_df) - 1) :
                   final_df[n].Delivery_Associate_Name # "Grand Total"
            /\ g.Total_order_count = DriverColumnSum("Total_order_count")
            /\ g.Delivered = DriverColumnSum("Delivered")
            /\ g.Unable_to_delivery = DriverColumnSum("Unable_to_delivery")
            /\ g.Returned = DriverColumnSum("Returned")
            /\ g.Out_on_road = DriverColumnSum("Out_on_road")
            /\ g.Delivered_pct =
                   (IF g.Total_order_count > 0
                    THEN PercentStr((100 * g.Delivered) \div g.Total_order_count)
                    ELSE "0%")

\* C4: in every row of the Hub Summary, the Grand Total row included,
\* Total_order_count = Delivered + Unable to Delivery + Returned + Out on Road
C4_HubTotalIsSumOfOutcomes ==
    \A n \in 1..Len(hub_wise_df) :
        hub_wise_df[n].Total_order_count =
            hub_wise_df[n].Delivered + hub_wise_df[n].Unable_to_Delivery
            + hub_wise_df[n].Returned + hub_wise_df[n].Out_on_Road

\* a Grand Total row is there and a hub's displayed total differs from the
\* number of its rows in df
C4_Witness ==
    /\ hub_wise_df # <<>>
    /\ hub_wise_df[Len(hub_wise_df)].Hub_Name = "Grand Total"
    /\ \E n \in HubRows :
           /\ hub_wise_df[n].Total_order_count > 0
           /\ hub_wise_df[n].Total_order_count #
                  Cardinality({i \in Rows : df[i].Delivery_Hub = hub_wise_df[n].Hub_Name})

\* minutes since the start of day 0
Minutes(t) == (t[1] * 24 + t[2]) * 60 + t[3]

\* picked before 15:00 of the date, last attempted before the date began,
\* and still waiting
IsBacklog(r, date) ==
    /\ ~isna(r.Picked_on)
    /\ ~isna(r.Last_attempted_on)
    /\ Minutes(r.Picked_on) < date * 24 * 60 + 15 * 60
    /\ Minutes(r.Last_attempted_on) < date * 24 * 60
    /\ r.Status \in {"Picked", "At-Hub", "Returned-To-Hub"}

\* C5: a hub's Backlogs counts exactly its orders with picked_on < selected
\* date 15:00, last_attempted_on < selected date 00:00 and status Picked,
\* At-Hub or Returned-To-Hub; an order with either timestamp missing is
\* never counted
C5_BacklogRule ==
    HubSummaryDone =>
        \A n \in HubRows :
            hub_wise_df[n].Backlogs =
                Cardinality({i \in Rows :
                    /\ df[i].Delivery_Hub = hub_wise_df[n].Hub_Name
                    /\ IsBacklog(df[i], selected_date)})

\* an At-Hub order picked at 14:00 and last attempted the day before is
\* counted next to one picked at 16:00 and one attempted on the date
C5_Witness ==
    /\ HubSummaryDone
    /\ \E i, j, k \in Rows :
           /\ df[i].Status = "At-Hub"
           /\ df[i].Picked_on = At(selected_date, 14, 0)
           /\ df[i].Last_attempted_on = At(selected_date - 1, 12, 0)
           /\ df[j].Picked_on = At(selected_date, 16, 0)
           /\ df[k].Last_attempted_on = At(selected_date, 0, 0)
           /\ df[i].Delivery_Hub = df[j].Delivery_Hub
           /\ df[i].Delivery_Hub = df[k].Delivery_Hub
           /\ \E n \in HubRows :
                  /\ hub_wise_df[n].Hub_Name = df[i].Delivery_Hub
                  /\ hub_wise_df[n].Backlogs = 1

\* the drivers with an order out for delivery on the selected date
ActiveDrivers == {df[i].Driver_Vehicle : i \in ActiveRows(df, selected_date)}

ActiveHubsOf(D) ==
    {df[i].Delivery_Hub : i \in {j \in ActiveRows(df, selected_date) :
                                    df[j].Driver_Vehicle = D}}

\* the driver's records of the date at hub H with a Delivered on
DeliveriesAt(D, H) ==
    Cardinality({i \in ActiveRows(df, selected_date) :
        /\ df[i].Driver_Vehicle = D
        /\ df[i].Delivery_Hub = H
        /\ ~isna(df[i].Delivered_on)})

Assignment == primary_hub(driver_hub_counts(df, selected_date, DriverHubKey))

\* C6: every driver out for delivery on the selected date has exactly one
\* primary hub, a hub where the driver's count of delivered records is
\* the maximum, and the Number of Vehicle of the hub rows add up to the
\* number of those drivers
C6_PrimaryHubPartition ==
    HubSummaryDone =>
        LET assigned == Assignment
            active == ActiveDrivers
        IN  /\ \A D \in active :
                   Cardinality({n \in 1..Len(assigned) :
                                   assigned[n].Driver_Vehicle = D}) = 1
            /\ \A n \in 1..Len(assigned) :
                   LET D == assigned[n].Driver_Vehicle
                       H == assigned[n].Delivery_Hub
                   IN  /\ D \in active
                       /\ H \in ActiveHubsOf(D)
                       /\ \A G \in ActiveHubsOf(D) :
                              DeliveriesAt(D, G) <= DeliveriesAt(D, H)
            /\ Sum([n \in 1..Cardinality(HubRows) |-> hub_wise_df[n].Number_of_Vehicle])
                   = Cardinality(active)

\* a driver delivered at two hubs, more at the one that sorts second
C6_Witness ==
    /\ HubSummaryDone
    /\ \E D \in ActiveDrivers :
           /\ DeliveriesAt(D, Hebbal) > DeliveriesAt(D, Banashankari)
           /\ DeliveriesAt(D, Banashankari) > 0
           /\ \E n \in HubRows :
                  /\ hub_wise_df[n].Hub_Name = Hebbal
                  /\ hub_wise_df[n].Number_of_Vehicle = 1

Injective(p) == \A i, j \in DOMAIN p : p[i] = p[j] => i = j
RowOrders(n) == {p \in [1..n -> 1..n] : Injective(p)}
Permuted(d, p) == [i \in 1..Len(d) |-> d[p[i]]]

\* the (driver, primary hub) pairs a table yields
PrimaryHubs(d, Key) ==
    LET rows == primary_hub(driver_hub_counts(d, selected_date, Key))
    IN  {<<rows[n].Driver_Vehicle, rows[n].Delivery_Hub>> : n \in 1..Len(rows)}

\* C7: the primary hub of every driver, as calculate_number_of_vehicle and
\* as calculate_vehicle_counts choose it, is the same for every order of
\* the rows of the input (stated where both functions have run)
C7_TieBreakIgnoresRowOrder ==
    pc = "hub_time_distribution" =>
        LET byHub == PrimaryHubs(df, DriverHubKey)
            byHubAndModel == PrimaryHubs(df, DriverHubModelKey)
        IN  \A p \in RowOrders(Len(df)) :
                /\ PrimaryHubs(Permuted(df, p), DriverHubKey) = byHub
                /\ PrimaryHubs(Permuted(df, p), DriverHubModelKey) = byHubAndModel

\* a driver with the same maximum at two hubs, met first at the hub that
\* sorts second
C7_Witness ==
    /\ pc = "hub_time_distribution"
    /\ \E D \in ActiveDrivers :
           /\ DeliveriesAt(D, Hebbal) = DeliveriesAt(D, Banashankari)
           /\ DeliveriesAt(D, Hebbal) > 0
           /\ \E i \in Rows :
                  /\ df[i].Driver_Vehicle = D
                  /\ df[i].Delivery_Hub = Hebbal
                  /\ \A j \in Rows :
                         (df[j].Driver_Vehicle = D /\ df[j].Delivery_Hub = Banashankari)
                             => i < j
           /\ <<D, Banashankari>> \in PrimaryHubs(df, DriverHubKey)

\* the hubs that are the primary hub of a Bike or Auto Rickshaw driver
FleetHubs ==
    LET rows == primary_hub(driver_hub_counts(df, selected_date, DriverHubModelKey))
    IN  {rows[n].Delivery_Hub : n \in {m \in 1..Len(rows) :
                                          rows[m].key[3] \in {"Bike", "Auto Rickshaw"}}}

\* C8: a hub of the input with no Bike or Auto Rickshaw driver assigned to
\* it has Count of Bikes = 0, Count of Autos = 0, Total_count = 0, both
\* ratios "0%" and Avg Productivity / Driver = 0, none of them missing
C8_EmptyFleetRow ==
    VehicleUtilizationDone =>
        \A n \in 1..Len(vehicle_utilization_df) :
            LET r == vehicle_utilization_df[n]
            IN  r.Hub_Name \notin FleetHubs =>
                    /\ r.Count_of_Bikes = Num(0)
                    /\ r.Count_of_Autos = Num(0)
                    /\ r.Total_count = Num(0)
                    /\ r.Ratio_Bikes = "0%"
                    /\ r.Ratio_Auto_Rickshaw = "0%"
                    /\ r.Avg_Productivity_per_Driver = 0

\* |2 * (h * total - 10000 * count)| <= total: h is count / total as a
\* percentage, to the nearest hundredth
IsPercentageOf(h, count, total) ==
    /\ 2 * (h * total - 10000 * count) <= total
    /\ 2 * (10000 * count - h * total) <= total

\* C9: in every Vehicle Utilization row with Total_count > 0 each ratio is
\* its count over Total_count as a percentage rounded to two decimals, and
\* the two ratios add up to 100% within 0.01
C9_RatiosAddUp ==
    VehicleUtilizationDone =>
        \A n \in 1..Len(vehicle_utilization_df) :
            LET r == vehicle_utilization_df[n]
            IN  (~isna(r.Total_count) /\ r.Total_count[1] > 0) =>
                    /\ ~isna(r.Count_of_Bikes) /\ ~isna(r.Count_of_Autos)
                    /\ r.Total_count[1] = r.Count_of_Bikes[1] + r.Count_of_Autos[1]
                    /\ IsPercentageOf(r.ratio_bikes, r.Count_of_Bikes[1], r.Total_count[1])
                    /\ IsPercentageOf(r.ratio_autos, r.Count_of_Autos[1], r.Total_count[1])
                    /\ r.ratio_bikes + r.ratio_autos \in 9999..10001
                    /\ r.Ratio_Bikes = RatioStr(r.ratio_bikes)
                    /\ r.Ratio_Auto_Rickshaw = RatioStr(r.ratio_autos)

\* two bikes and one auto at a hub: 66.67% and 33.33%
C9_Witness ==
    /\ VehicleUtilizationDone
    /\ \E n \in 1..Len(vehicle_utilization_df) :
           /\ vehicle_utilization_df[n].Total_count = Num(3)
           /\ vehicle_utilization_df[n].Ratio_Bikes = "66.67%"
           /\ vehicle_utilization_df[n].Ratio_Auto_Rickshaw = "33.33%"

\* the orders counted in one cell of a time-bucket matrix
InBucket(t, b) ==
    /\ DateIs(t, selected_date)
    /\ time_buckets[b][2] <= t[2]
    /\ t[2] < time_buckets[b][3]

\* the matrix has one row per (name, bucket), each with the number of
\* matching orders: a row for every pair, and no more rows than pairs
IsDense(matrix, names, Name, Stamp) ==
    /\ Len(matrix) = Len(names) * Len(time_buckets)
    /\ \A h \in 1..Len(names) : \A b \in 1..Len(time_buckets) :
           \E n \in 1..Len(matrix) :
               /\ matrix[n].name = names[h]
               /\ matrix[n].Time_Bucket = time_buckets[b][1]
               /\ matrix[n].Count =
                      Cardinality({i \in Rows :
                          df[i][Name] = names[h] /\ InBucket(df[i][Stamp], b)})

\* C10: the hub view has exactly 6 x 17 = 102 rows and the customer view
\* 13 x 17 = 221, one per combination, with Count 0 where no order matches
C10_DenseMatrix ==
    pc = "done" =>
        /\ Len(time_distribution) = 102
        /\ Len(time_distribution) = Len(delivery_hubs) * Len(time_buckets)
        /\ IsDense(time_distribution, delivery_hubs, HubName, FirstOutForDelivery)
        /\ Len(customer_time_distribution) = 221
        /\ Len(customer_time_distribution) = Len(specified_customers) * Len(time_buckets)
        /\ IsDense(customer_time_distribution, specified_customers, CustomerName, PickedOn)

\* two orders in one cell, an order of a hub and a customer outside the
\* lists, and cells left at 0
C10_Witness ==
    /\ pc = "done"
    /\ \E n \in 1..Len(time_distribution) : time_distribution[n].Count = 2
    /\ \E n \in 1..Len(customer_time_distribution) : customer_time_distribution[n].Count = 2
    /\ \E i \in Rows :
           /\ df[i].Delivery_Hub = OtherHub
           /\ df[i].Customer = OtherCustomer
           /\ DateIs(df[i].First_Out_For_Delivery_on, selected_date)

\* the buckets whose range start <= hour < end holds the hour
BucketsOfHour(hour) ==
    {b \in 1..Len(time_buckets) :
        time_buckets[b][2] <= hour /\ hour < time_buckets[b][3]}

\* the timestamp is put in the one bucket of its hour, whatever its minute;
\* a missing timestamp in none
InItsBucket(t) ==
    IF isna(t) THEN categorize_time(t) = None
    ELSE /\ Cardinality(BucketsOfHour(t[2])) = 1
         /\ categorize_time(t) # None
         /\ \A b \in BucketsOfHour(t[2]) : categorize_time(t) = << time_buckets[b][1] >>
         /\ \A m \in ClockMinutes : categorize_time(At(t[1], t[2], m)) = categorize_time(t)

\* C11: categorize_time maps every timestamp with hour 0..23 to exactly one
\* of the 17 buckets, the one with start <= hour < end, whatever the minute,
\* never to None; a missing timestamp maps to None. The displayed matrix
\* counts the order in that bucket
C11_BucketPartition ==
    /\ Len(time_buckets) = 17
    /\ \A h \in 0..23 : Cardinality(BucketsOfHour(h)) = 1
    /\ \A i \in Rows :
           /\ InItsBucket(df[i].First_Out_For_Delivery_on)
           /\ InItsBucket(df[i].Picked_on)
    /\ pc = "done" =>
           \A i \in Rows : \A n \in 1..Len(time_distribution) :
               LET t == df[i].First_Out_For_Delivery_on
               IN  time_distribution[n].Count =
                       (IF /\ ~isna(t)
                           /\ time_distribution[n].name = df[i].Delivery_Hub
                           /\ << time_distribution[n].Time_Bucket >> = categorize_time(t)
                        THEN 1 ELSE 0)

\* an order sent out at 8:59 is counted in 6AM-9AM
C11_Witness ==
    /\ pc = "done"
    /\ Len(df) = 1
    /\ df[1].First_Out_For_Delivery_on = At(1, 8, 59)
    /\ \E n \in 1..Len(time_distribution) :
           /\ time_distribution[n].Time_Bucket = "6AM-9AM"
           /\ time_distribution[n].Count = 1

\* the rows of a rollup come in descending order of Count
SortedDescending(rows) ==
    \A n \in 1..(Len(rows) - 1) : rows[n].Count >= rows[n + 1].Count

\* every Percentage is 0 when the grand total is 0, and else Count over the
\* grand total as a percentage to the nearest tenth
PercentagesOf(rows, total) ==
    \A n \in 1..Len(rows) :
        IF total = 0 THEN rows[n].Percentage = Num(0)
        ELSE /\ ~isna(rows[n].Percentage)
             /\ 2 * (rows[n].Percentage[1] * total - 1000 * rows[n].Count) <= total
             /\ 2 * (1000 * rows[n].Count - rows[n].Percentage[1] * total) <= total

GrandTotalPicked == Sum(Column(customer_time_distribution, "Count"))

\* C12: in both rollups of the customer view every Percentage is 0 when no
\* order of a listed customer was picked on the selected date, never NaN,
\* and is Count / grand total * 100 rounded to one decimal otherwise; both
\* rollups are sorted descending by Count
C12_RollupPercentages ==
    pc = "done" =>
        /\ PercentagesOf(total_by_customer, GrandTotalPicked)
        /\ PercentagesOf(peak_times, GrandTotalPicked)
        /\ SortedDescending(total_by_customer)
        /\ SortedDescending(peak_times)

\* C13: when a required column is absent from the fetched table no summary
\* table is displayed: the run ends in the error state with nothing shown
C13_NoOutputWithoutColumn ==
    (columns # required_columns) =>
        /\ shown = <<>>
        /\ pc \in {"driver_summary", "error"}

\* Number of Vehicle of a hub in the Hub Wise Summary
NumberOfVehicleAt(hub) ==
    hub_wise_df[CHOOSE n \in 1..Len(hub_wise_df) :
                    hub_wise_df[n].Hub_Name = hub].Number_of_Vehicle

\* C14: calculate_number_of_vehicle and calculate_vehicle_counts give every
\* driver the same primary hub, and so in every hub Count of Bikes + Count
\* of Autos is at most Number of Vehicle, also for a driver recorded under
\* more than one vehicle model
C14_PrimaryHubsAgree ==
    (VehicleUtilizationDone /\ pc # "error") =>
        /\ PrimaryHubs(df, DriverHubKey) = PrimaryHubs(df, DriverHubModelKey)
        /\ \A n \in 1..Len(vehicle_utilization_df) :
               LET r == vehicle_utilization_df[n]
               IN  fillna0(r.Count_of_Bikes) + fillna0(r.Count_of_Autos)
                       <= NumberOfVehicleAt(r.Hub_Name)

\* the orders out on the road: Out-For-Delivery, sent out on the selected
\* date from the selected hub
OutOnRoadOrders ==
    {i \in Rows :
        /\ df[i].Status = "Out-For-Delivery"
        /\ DateIs(df[i].Latest_Out_For_Delivery_on, selected_date)
        /\ df[i].Delivery_Hub = selected_hub}

\* C15: the Out on road of the Grand Total row of the Driver Summary is the
\* number of orders out on the road: none is lost when its driver has no
\* row of their own, none is counted twice when the driver has several rows
C15_OutOnRoadConserved ==
    DriverSummaryDone =>
        final_df[Len(final_df)].Out_on_road = Cardinality(OutOnRoadOrders)
====
